---- MODULE Spec2Model ----
(***************************************************************************)
(* A model of the trading-backtest repository: the engine (its rebalance   *)
(* step, valuation, scheduler and run method, backtest/engine.py), the     *)
(* performance statistics (backtest/performance.py), the screener          *)
(* (strategies/screening.py), the allocation utilities                     *)
(* (strategies/allocation.py, strategies/base.py) and the rate limiter of  *)
(* the FMP connector (data/connectors/fmp.py).                             *)
(*                                                                         *)
(* portfolio and cash are the state of one engine; call, ret and raised    *)
(* are the operation in progress or last made, what it returned and        *)
(* whether an exception left it; prev is the engine state before it.       *)
(* heap and engines hold the objects and attributes of several engine      *)
(* instances where a property is about more than one.  connector is the    *)
(* FMP connector's rate-limiting state and clock the time (time.time()).   *)
(*                                                                         *)
(* Engine weights are integers in units of 1/100, so the executor's 1%     *)
(* threshold is one unit.  Floats of the allocation and performance code   *)
(* are exact rationals <<n, d>> with d > 0, extended with the IEEE values  *)
(* NaN = <<0, 0>>, +inf = <<1, 0>> and -inf = <<-1, 0>>.  Times of the     *)
(* connector are integers in units of 1/10 second.                         *)
(***************************************************************************)
EXTENDS Integers, Sequences, FiniteSets, TLC

VARIABLES portfolio, cash, call, ret, raised, prev, heap, engines,
          connector, clock

vars ==
    <<portfolio, cash, call, ret, raised, prev, heap, engines, connector,
      clock>>

(***************************************************************************)
(* Bounds of the model.                                                    *)
(***************************************************************************)
\* Engine weights range over 0..MaxWeight hundredths.
MaxWeight == 2
\* Rebalance dates handed to the engine are 1..MaxDate.
MaxDate == 2
\* get_rebalance_dates is called with start_date in 0..MaxStart and
\* end_date - start_date in -1..MaxSpan (days).
MaxStart == 2
MaxSpan == 370
\* A valuation series has up to MaxSeriesLen values in 1..MaxValue.
MaxSeriesLen == 4
MaxValue == 3
\* The allocation utilities get symbol lists of up to MaxListLen symbols,
\* market caps NaN or -1..MaxCap, and weights NaN, +inf or k/WeightDen for
\* k in -1..MaxNumer.
MaxListLen == 2
MaxCap == 2
WeightDen == 2
MaxNumer == 2

MaxTopN == 3

MaxRunSpan == 8
\* The FMP connector is constructed at a time of up to MaxStartTime and its
\* requests arrive up to the time MaxTime (in tenths of a second).
MaxStartTime == 2
MaxTime == 610
\* The close prices of the price frames.
Prices == {1, 2}

\* The symbols the engine trades, in the iteration order of the dictionaries.
SymbolOrder == <<"A", "B">>

Symbols == {SymbolOrder[i] : i \in 1..Len(SymbolOrder)}

\* The empty dictionary / empty list.
Empty == <<>>

Abs(x) == IF x < 0 THEN -x ELSE x

\* All dictionaries with keys among S and values in V.
Dicts(S, V) == UNION {[D -> V] : D \in SUBSET S}

\* DataFrame.empty: an axis of length 0.
FrameEmpty(frame) == frame.index = {} \/ frame.columns = {}

\* A symbol's price frame: the dates of its rows (index), its columns and
\* the close price of each row.  For a rebalance it is empty or has one row.
EmptyFrame == [index |-> {}, columns |-> {"close"}, close |-> Empty]

OneRowFrame == [index |-> {1}, columns |-> {"close"}, close |-> [d \in {1} |-> 1]]

PriceFrames == {EmptyFrame, OneRowFrame}

(***************************************************************************)
(* BacktestEngine                                                          *)
(***************************************************************************)
\* strategy.initial_capital (default of BaseStrategy.__init__).
InitialCapital == 100000

\* The executor's minimum change, 0.01, in hundredths.
Threshold == 1

\* What the three strategy calls of one rebalance can do.
Raises == {"screen_raises", "signals_raises", "allocate_raises"}

Outcomes == Raises \cup {"none_selected", "allocated"}

\* The try block spans the three strategy calls and the execution loop, and
\* "except Exception" handles whatever they raise.
ExceptionCaughtNarrow(outcome) == outcome = "screen_raises"

ExceptionCaught(outcome) == outcome \in Raises

\* self.portfolio.get(symbol, 0)
GetWeight(p, symbol) == IF symbol \in DOMAIN p THEN p[symbol] ELSE 0

\* symbol in price_data and not price_data[symbol].empty
HasPriceData(price_data, symbol) ==
    symbol \in DOMAIN price_data /\ ~FrameEmpty(price_data[symbol])

NeedsTradeInclusive(target_weight, current_weight) ==
    Abs(target_weight - current_weight) >= Threshold

\* abs(target_weight - current_weight) > 0.01
NeedsTrade(target_weight, current_weight) ==
    Abs(target_weight - current_weight) > Threshold

TradeAction(target_weight, current_weight) ==
    IF target_weight > current_weight THEN "buy" ELSE "sell"

MakeTrade(current_date, symbol, target_weight, current_weight) ==
    [date |-> current_date, symbol |-> symbol,
     action |-> TradeAction(target_weight, current_weight),
     target_weight |-> target_weight, current_weight |-> current_weight]

SetPositionDropped(p, symbol, target_weight) == p

\* self.portfolio[symbol] = target_weight
SetPosition(p, symbol, target_weight) ==
    [s \in DOMAIN p \cup {symbol} |-> IF s = symbol THEN target_weight ELSE p[s]]

\* The execution loop over target_allocation.items(), from the i-th symbol on;
\* st = [portfolio, trades].
RECURSIVE ExecuteTrades(_, _, _, _, _)
ExecuteTrades(st, current_date, target_allocation, price_data, i) ==
    IF i > Len(SymbolOrder) THEN st
    ELSE LET symbol == SymbolOrder[i]
             current_weight == GetWeight(st.portfolio, symbol)
             traded ==
                /\ symbol \in DOMAIN target_allocation
                /\ HasPriceData(price_data, symbol)
                /\ NeedsTrade(target_allocation[symbol], current_weight)
             next ==
                IF traded
                THEN [portfolio |-> SetPosition(st.portfolio, symbol,
                                                target_allocation[symbol]),
                      trades |-> Append(st.trades,
                                        MakeTrade(current_date, symbol,
                                                  target_allocation[symbol],
                                                  current_weight))]
                ELSE st
         IN ExecuteTrades(next, current_date, target_allocation, price_data, i + 1)

\* BacktestEngine._rebalance_portfolio: the portfolio it leaves, the trades it
\* returns and whether an exception leaves the method.
_rebalance_portfolio(p, current_date, outcome, target_allocation, price_data) ==
    IF outcome \in Raises
    THEN [portfolio |-> p, trades |-> Empty, raised |-> ~ExceptionCaught(outcome)]
    ELSE IF outcome = "none_selected"
    THEN [portfolio |-> p, trades |-> Empty, raised |-> FALSE]
    ELSE LET done == ExecuteTrades([portfolio |-> p, trades |-> Empty],
                                   current_date, target_allocation, price_data, 1)
         IN [portfolio |-> done.portfolio, trades |-> done.trades, raised |-> FALSE]

\* BacktestEngine.__init__
EngineInit ==
    /\ portfolio = Empty
    /\ cash = InitialCapital
    /\ call = [op |-> "init"]
    /\ ret = Empty
    /\ raised = FALSE
    /\ prev = [portfolio |-> Empty, cash |-> InitialCapital]
    /\ heap = Empty
    /\ engines = Empty
    /\ connector = Empty
    /\ clock = 0

\* One call of _rebalance_portfolio, its date, the strategy's target
\* allocation and the price data drawn from the given sets.  An exception
\* that left the method would end the caller's loop over the dates.
RebalanceOf(dates, targets, price_datas) ==
    /\ ~raised
    /\ \E current_date \in dates, outcome \in Outcomes,
          target_allocation \in targets, price_data \in price_datas :
          /\ outcome # "allocated" =>
                target_allocation = Empty
          /\ LET r == _rebalance_portfolio(portfolio, current_date, outcome,
                                         target_allocation, price_data)
             IN /\ portfolio' = r.portfolio
                /\ ret' = r.trades
                /\ raised' = r.raised
                /\ call' = [op |-> "rebalance", date |-> current_date,
                            outcome |-> outcome, target |-> target_allocation,
                            price_data |-> price_data]
    /\ prev' = [portfolio |-> portfolio, cash |-> cash]
    /\ UNCHANGED <<connector, clock, heap, engines, cash>>

\* The rebalances of validated targets: weights of 0 to MaxWeight hundredths.
Rebalance ==
    RebalanceOf(1..MaxDate, Dicts(Symbols, 0..MaxWeight),
                Dicts(Symbols, PriceFrames))

Init == EngineInit

Next == Rebalance

Spec == Init /\ [][Next]_vars

(***************************************************************************)
(* Claims about the rebalance step.                                        *)
(***************************************************************************)
Rebalanced == call.op = "rebalance"

Allocated == Rebalanced /\ call.outcome = "allocated"

\* The trades of the last rebalance that name the symbol.
TradesOf(symbol) == {i \in 1..Len(ret) : ret[i].symbol = symbol}

\* The symbol's entry is as it was before the last rebalance.
PositionKept(symbol) ==
    /\ (symbol \in DOMAIN portfolio) = (symbol \in DOMAIN prev.portfolio)
    /\ symbol \in DOMAIN portfolio => portfolio[symbol] = prev.portfolio[symbol]

\* The last rebalance, run again on the portfolio it left.
Repeated ==
    _rebalance_portfolio(portfolio, call.date, call.outcome, call.target,
                       call.price_data)

\* C1: a rebalance whose target allocation equals the current portfolio
\* emits no trade and leaves the positions unchanged; and repeating any
\* rebalance with the same target allocation and the same price data emits
\* no trade and changes no position.
C1_Idempotent ==
    Rebalanced =>
        /\ (Allocated /\ call.target = prev.portfolio) =>
                (ret = Empty /\ portfolio = prev.portfolio)
        /\ Repeated.trades = Empty
        /\ Repeated.portfolio = portfolio

\* A rebalance of a held, priced portfolio onto itself.
C1_Witness ==
    /\ Allocated
    /\ call.target = prev.portfolio
    /\ DOMAIN call.target = Symbols
    /\ \A s \in Symbols : HasPriceData(call.price_data, s) /\ call.target[s] > 0

\* The executor's rule for one symbol of the target allocation.
TradedAsRuled(symbol) ==
    LET t == call.target[symbol]
        c == GetWeight(prev.portfolio, symbol)
    IN IF Abs(t - c) > Threshold
       THEN /\ Cardinality(TradesOf(symbol)) = 1
            /\ \A i \in TradesOf(symbol) :
                  /\ ret[i].action = (IF t > c THEN "buy" ELSE "sell")
                  /\ ret[i].target_weight = t
                  /\ ret[i].current_weight = c
            /\ symbol \in DOMAIN portfolio
            /\ portfolio[symbol] = t
       ELSE /\ TradesOf(symbol) = {}
            /\ PositionKept(symbol)

\* C2 as stated: every symbol of the target allocation is traded by the
\* threshold rule, whether or not it has price data.
C2_Original ==
    Allocated => \A s \in DOMAIN call.target : TradedAsRuled(s)

\* C2 as amended: every symbol of the target allocation that has non-empty
\* price data is traded if and only if |target - current| > threshold
\* (strictly), as a buy when target > current and a sell otherwise, and then
\* holds the target weight; a symbol within the threshold, and a symbol
\* without price data, emits no trade and keeps its position.
C2_ThresholdRule ==
    Allocated =>
        \A s \in DOMAIN call.target :
            IF HasPriceData(call.price_data, s)
            THEN TradedAsRuled(s)
            ELSE TradesOf(s) = {} /\ PositionKept(s)

\* One symbol changes by exactly the threshold and is not traded, the other
\* is sold.
C2_Witness ==
    /\ Allocated
    /\ \E s \in DOMAIN call.target :
          /\ HasPriceData(call.price_data, s)
          /\ Abs(call.target[s] - GetWeight(prev.portfolio, s)) = Threshold
          /\ TradesOf(s) = {}
    /\ \E i \in 1..Len(ret) : ret[i].action = "sell"

\* C3: when screen_stocks, generate_signals or allocate_portfolio raises,
\* the rebalance lets no exception out, emits no trade and leaves the
\* weights and the cash as they were, so that the next date's rebalance
\* runs (Rebalance stays enabled: nothing was raised to the caller).
C3_RaiseSkipsDate ==
    (Rebalanced /\ call.outcome \in Raises) =>
        /\ ~raised
        /\ ret = Empty
        /\ portfolio = prev.portfolio
        /\ cash = prev.cash
        /\ ENABLED Rebalance

\* allocate_portfolio raised while positions were held.
C3_Witness ==
    /\ Rebalanced
    /\ call.outcome = "allocate_raises"
    /\ portfolio # Empty
    /\ ~raised


(***************************************************************************)
(* BacktestEngine.get_rebalance_dates                                      *)
(***************************************************************************)
frequency_map ==
    [daily |-> 1, weekly |-> 7, monthly |-> 30, quarterly |-> 90, annually |-> 365]

\* The names a strategy may carry as rebalance_frequency: those of the map
\* and one that is not in it.
FrequencyNames == DOMAIN frequency_map \cup {"biweekly"}

\* frequency_map.get(self.strategy.rebalance_frequency, 30)
FreqDays(rebalance_frequency) ==
    IF rebalance_frequency \in DOMAIN frequency_map
    THEN frequency_map[rebalance_frequency]
    ELSE 30

LoopContinuesStrict(current_date, end_date) == current_date < end_date

\* while current_date <= end_date
LoopContinues(current_date, end_date) == current_date <= end_date

\* The engine as constructed; the pure functions below leave it alone.
EngineIdle ==
    /\ portfolio = Empty
    /\ cash = InitialCapital
    /\ raised = FALSE
    /\ prev = [portfolio |-> Empty, cash |-> InitialCapital]
    /\ heap = Empty
    /\ engines = Empty
    /\ connector = Empty
    /\ clock = 0

\* A call of get_rebalance_dates at the head of its loop: freq_days looked
\* up, dates = [] and current_date = start_date.
DatesInit ==
    /\ EngineIdle
    /\ \E start_date \in 0..MaxStart, span \in -1..MaxSpan,
          rebalance_frequency \in FrequencyNames :
          call = [op |-> "get_rebalance_dates", pc |-> "loop",
                  start_date |-> start_date, end_date |-> start_date + span,
                  rebalance_frequency |-> rebalance_frequency,
                  freq_days |-> FreqDays(rebalance_frequency),
                  dates |-> Empty, current_date |-> start_date]
    /\ ret = Empty

\* One iteration: dates.append(current_date); current_date += freq_days
DatesLoopBody ==
    /\ call.pc = "loop"
    /\ LoopContinues(call.current_date, call.end_date)
    /\ call' = [call EXCEPT !.dates = Append(@, call.current_date),
                            !.current_date = @ + call.freq_days]
    /\ UNCHANGED <<connector, clock, heap, engines, portfolio, cash, raised, prev, ret>>

\* return dates
DatesReturn ==
    /\ call.pc = "loop"
    /\ ~LoopContinues(call.current_date, call.end_date)
    /\ call' = [call EXCEPT !.pc = "done"]
    /\ ret' = call.dates
    /\ UNCHANGED <<connector, clock, heap, engines, portfolio, cash, raised, prev>>

DatesNext == DatesLoopBody \/ DatesReturn

SpecDates == DatesInit /\ [][DatesNext]_vars

DatesReturned == call.op = "get_rebalance_dates" /\ call.pc = "done"

\* C4: for start_date <= end_date and each of the five frequencies the
\* result is non-empty, starts at start_date, steps by exactly the
\* frequency's day count (so it is strictly ascending) and ends at the last
\* date d with d <= end_date < d + day count.
C4_RebalanceDates ==
    (/\ DatesReturned
     /\ call.start_date <= call.end_date
     /\ call.rebalance_frequency \in DOMAIN frequency_map) =>
        LET days == CASE call.rebalance_frequency = "daily" -> 1
                      [] call.rebalance_frequency = "weekly" -> 7
                      [] call.rebalance_frequency = "monthly" -> 30
                      [] call.rebalance_frequency = "quarterly" -> 90
                      [] call.rebalance_frequency = "annually" -> 365
        IN /\ Len(ret) >= 1
           /\ ret[1] = call.start_date
           /\ \A i \in 1..(Len(ret) - 1) :
                 ret[i + 1] - ret[i] = days /\ ret[i] < ret[i + 1]
           /\ ret[Len(ret)] <= call.end_date
           /\ call.end_date < ret[Len(ret)] + days

\* An annual schedule of two dates whose second date is end_date itself.
C4_Witness ==
    /\ DatesReturned
    /\ call.rebalance_frequency = "annually"
    /\ Len(ret) = 2
    /\ ret[2] = call.end_date

(***************************************************************************)
(* Floats: exact rationals and the IEEE special values.                    *)
(***************************************************************************)
NaN == <<0, 0>>

PosInf == <<1, 0>>

NegInf == <<-1, 0>>

RECURSIVE GCD(_, _)
GCD(a, b) == IF b = 0 THEN a ELSE GCD(b, a % b)

Sign(n) == IF n > 0 THEN 1 ELSE IF n < 0 THEN -1 ELSE 0

\* The float n/d (d # 0), in lowest terms with a positive denominator.
F(n, d) ==
    LET g == GCD(Abs(n), Abs(d))
    IN <<Sign(d) * (n \div g), Abs(d) \div g>>

Zero == F(0, 1)

One == F(1, 1)

IsNaN(x) == x = NaN

IsInf(x) == x = PosInf \/ x = NegInf

IsFinite(x) == x[2] > 0

FNeg(x) == <<-x[1], x[2]>>

FAdd(x, y) ==
    IF IsNaN(x) \/ IsNaN(y) THEN NaN
    ELSE IF IsInf(x) THEN (IF IsInf(y) /\ y # x THEN NaN ELSE x)
    ELSE IF IsInf(y) THEN y
    ELSE F(x[1] * y[2] + y[1] * x[2], x[2] * y[2])

FSub(x, y) == FAdd(x, FNeg(y))

\* Division as numpy and IEEE define it (x/0 is an infinity or NaN); the
\* Python-level divisions of the code are all guarded by a positive divisor.
FDiv(x, y) ==
    IF IsNaN(x) \/ IsNaN(y) THEN NaN
    ELSE IF IsInf(x)
         THEN (IF IsInf(y) THEN NaN
               ELSE IF y[1] < 0 THEN FNeg(x) ELSE x)
    ELSE IF IsInf(y) THEN Zero
    ELSE IF y[1] = 0
         THEN (IF x[1] = 0 THEN NaN ELSE IF x[1] > 0 THEN PosInf ELSE NegInf)
    ELSE F(x[1] * y[2], x[2] * y[1])

FMul(x, y) ==
    IF IsNaN(x) \/ IsNaN(y) THEN NaN
    ELSE IF IsInf(x) \/ IsInf(y)
         THEN (IF x[1] = 0 \/ y[1] = 0 THEN NaN
               ELSE IF Sign(x[1]) = Sign(y[1]) THEN PosInf ELSE NegInf)
    ELSE F(x[1] * y[1], x[2] * y[2])

\* x > y; every comparison with NaN is false.
FGt(x, y) ==
    IF IsNaN(x) \/ IsNaN(y) THEN FALSE
    ELSE IF IsInf(x) \/ IsInf(y)
         THEN (IF x = y THEN FALSE ELSE x = PosInf \/ y = NegInf)
    ELSE x[1] * y[2] > y[1] * x[2]

FLe(x, y) == ~IsNaN(x) /\ ~IsNaN(y) /\ ~FGt(x, y)

(***************************************************************************)
(* PerformanceAnalyzer._calculate_max_drawdown                             *)
(***************************************************************************)
\* Series.pct_change(): NaN first, then values[i] / values[i-1] - 1.
PctChange(values) ==
    [i \in 1..Len(values) |->
        IF i = 1 THEN NaN ELSE FSub(FDiv(values[i], values[i - 1]), One)]

\* Series.cumprod(): NaN where the entry is NaN, and the product of the
\* entries that are not NaN elsewhere.
RECURSIVE ProductTo(_, _)
ProductTo(xs, i) ==
    IF i = 0 THEN One
    ELSE IF IsNaN(xs[i]) THEN ProductTo(xs, i - 1)
    ELSE FMul(ProductTo(xs, i - 1), xs[i])

CumProd(xs) ==
    [i \in 1..Len(xs) |-> IF IsNaN(xs[i]) THEN NaN ELSE ProductTo(xs, i)]

\* Series.expanding().max(): the maximum of the entries so far that are not
\* NaN, NaN when there is none.
RECURSIVE MaxTo(_, _)
MaxTo(xs, i) ==
    IF i = 0 THEN NaN
    ELSE LET m == MaxTo(xs, i - 1)
         IN IF IsNaN(xs[i]) THEN m
            ELSE IF IsNaN(m) \/ FGt(xs[i], m) THEN xs[i] ELSE m

ExpandingMax(xs) == [i \in 1..Len(xs) |-> MaxTo(xs, i)]

\* Series.min(): the minimum of the entries that are not NaN, NaN when there
\* is none.
RECURSIVE MinTo(_, _)
MinTo(xs, i) ==
    IF i = 0 THEN NaN
    ELSE LET m == MinTo(xs, i - 1)
         IN IF IsNaN(xs[i]) THEN m
            ELSE IF IsNaN(m) \/ FGt(m, xs[i]) THEN xs[i] ELSE m

SeriesMin(xs) == MinTo(xs, Len(xs))

_calculate_max_drawdown(values) ==
    LET cumulative == CumProd([i \in 1..Len(values) |->
                                  FAdd(One, PctChange(values)[i])])
        running_max == ExpandingMax(cumulative)
        drawdown == [i \in 1..Len(values) |->
                        FDiv(FSub(cumulative[i], running_max[i]), running_max[i])]
    IN SeriesMin(drawdown)

\* The valuation series: every sequence of up to MaxSeriesLen values.
ValueSeries ==
    UNION {[1..n -> {F(v, 1) : v \in 1..MaxValue}] : n \in 0..MaxSeriesLen}

DrawdownInit ==
    /\ EngineIdle
    /\ \E values \in ValueSeries :
          call = [op |-> "_calculate_max_drawdown", pc |-> "called",
                  values |-> values]
    /\ ret = Empty

MaxDrawdown ==
    /\ call.op = "_calculate_max_drawdown"
    /\ call.pc = "called"
    /\ call' = [call EXCEPT !.pc = "done"]
    /\ ret' = _calculate_max_drawdown(call.values)
    /\ UNCHANGED <<connector, clock, heap, engines, portfolio, cash, raised, prev>>

SpecDrawdown == DrawdownInit /\ [][MaxDrawdown]_vars

DrawdownDone == call.op = "_calculate_max_drawdown" /\ call.pc = "done"

\* The peak-to-trough decline of a series: the minimum over t of
\* (v_t - M_t) / M_t, M_t the maximum of v_1..v_t.
RunningPeak(values, t) ==
    CHOOSE m \in {values[i] : i \in 1..t} :
        \A i \in 1..t : ~FGt(values[i], m)

Decline(values, t) ==
    FDiv(FSub(values[t], RunningPeak(values, t)), RunningPeak(values, t))

PeakToTrough(values) ==
    CHOOSE d \in {Decline(values, t) : t \in 1..Len(values)} :
        \A t \in 1..Len(values) : ~FGt(d, Decline(values, t))

\* C5: for a series of at least two positive values the result is the
\* minimum over t of (v_t - M_t) / M_t, the running peak M_t counting the
\* first value of the series.
C5_PeakIncludesFirst ==
    (DrawdownDone /\ Len(call.values) >= 2) => ret = PeakToTrough(call.values)

\* C6: the result is <= 0 for every series of at least one value, and 0
\* for every non-decreasing series.
C6_NeverPositive ==
    (DrawdownDone /\ Len(call.values) >= 1) =>
        /\ FLe(ret, Zero)
        /\ (\A i \in 1..(Len(call.values) - 1) :
                ~FGt(call.values[i], call.values[i + 1])) => ret = Zero

(***************************************************************************)
(* PortfolioAllocator and BaseStrategy.validate_allocation                 *)
(***************************************************************************)
AllocSymbols == {"A", "B", "C"}

\* The keys of a dictionary built from a list: a repeated symbol is one key.
Keys(symbols) == {symbols[i] : i \in 1..Len(symbols)}

\* sum(d.values())
RECURSIVE FSum(_)
FSum(d) ==
    IF DOMAIN d = {} THEN Zero
    ELSE LET k == CHOOSE k \in DOMAIN d : TRUE
         IN FAdd(d[k], FSum([j \in DOMAIN d \ {k} |-> d[j]]))

\* {symbol: weight / total for symbol, weight in d.items()}
DivideBy(d, total) == [k \in DOMAIN d |-> FDiv(d[k], total)]

\* PortfolioAllocator.equal_weight
equal_weight(symbols) ==
    IF symbols = Empty THEN Empty
    ELSE LET weight == F(1, Len(symbols))
         IN [symbol \in Keys(symbols) |-> weight]

ValidCapNonNegative(market_cap) == ~IsNaN(market_cap) /\ ~FGt(Zero, market_cap)

\* pd.notna(market_cap) and market_cap > 0
ValidCap(market_cap) == ~IsNaN(market_cap) /\ FGt(market_cap, Zero)

\* PortfolioAllocator.market_cap_weight
market_cap_weight(symbols, universe) ==
    IF symbols = Empty \/ FrameEmpty(universe)
       \/ "market_cap" \notin universe.columns
    THEN equal_weight(symbols)
    ELSE LET held == {symbol \in Keys(symbols) :
                        /\ symbol \in universe.index
                        /\ ValidCap(universe.market_cap[symbol])}
             market_caps == [symbol \in held |-> universe.market_cap[symbol]]
         IN IF held = {} THEN equal_weight(symbols)
            ELSE DivideBy(market_caps, FSum(market_caps))

\* PortfolioAllocator.target_weight
target_weight(symbols, target_weights) ==
    IF symbols = Empty THEN Empty
    ELSE LET allocation == [symbol \in Keys(symbols) \cap DOMAIN target_weights |->
                               target_weights[symbol]]
             total_weight == FSum(allocation)
         IN IF DOMAIN allocation = {} THEN equal_weight(symbols)
            ELSE IF FGt(total_weight, Zero) THEN DivideBy(allocation, total_weight)
            ELSE allocation

ValidateTotalOfAll(allocation) ==
    IF DOMAIN allocation = {} THEN Empty
    ELSE LET valid == {symbol \in DOMAIN allocation :
                          FGt(allocation[symbol], Zero) /\ ~IsNaN(allocation[symbol])}
             valid_allocation == [symbol \in valid |-> allocation[symbol]]
             total_weight == FSum(allocation)
         IN IF valid = {} THEN Empty
            ELSE IF FGt(total_weight, Zero)
                 THEN DivideBy(valid_allocation, total_weight)
            ELSE valid_allocation

\* PortfolioAllocator.validate_allocation
validate_allocation(allocation) ==
    IF DOMAIN allocation = {} THEN Empty
    ELSE LET valid == {symbol \in DOMAIN allocation :
                          FGt(allocation[symbol], Zero) /\ ~IsNaN(allocation[symbol])}
             valid_allocation == [symbol \in valid |-> allocation[symbol]]
             total_weight == FSum(valid_allocation)
         IN IF valid = {} THEN Empty
            ELSE IF FGt(total_weight, Zero)
                 THEN DivideBy(valid_allocation, total_weight)
            ELSE valid_allocation

\* BaseStrategy.validate_allocation
base_validate_allocation(allocation) ==
    IF DOMAIN allocation = {} THEN Empty
    ELSE LET kept == [k \in {k \in DOMAIN allocation : FGt(allocation[k], Zero)} |->
                         allocation[k]]
             total == FSum(kept)
         IN IF FGt(total, Zero) THEN DivideBy(kept, total) ELSE kept

\* The inputs: symbol lists (symbols may repeat), universes with and without
\* a market_cap column, and weight dictionaries.
SymbolLists == UNION {[1..n -> AllocSymbols] : n \in 0..MaxListLen}

CapValues == {NaN} \cup {F(k, 1) : k \in -1..MaxCap}

Universes ==
    {[columns |-> {"market_cap"}, index |-> DOMAIN caps, market_cap |-> caps] :
        caps \in Dicts(AllocSymbols, CapValues)}
    \cup {[columns |-> {}, index |-> index, market_cap |-> Empty] :
             index \in SUBSET AllocSymbols}

WeightValues == {NaN, PosInf} \cup {F(k, WeightDen) : k \in -1..MaxNumer}

WeightDicts == Dicts(AllocSymbols, WeightValues)

AllocCalls ==
    {[op |-> "equal_weight", pc |-> "called", symbols |-> symbols] :
        symbols \in SymbolLists}
    \cup {[op |-> "market_cap_weight", pc |-> "called", symbols |-> symbols,
            universe |-> universe] :
             symbols \in SymbolLists, universe \in Universes}
    \cup {[op |-> "target_weight", pc |-> "called", symbols |-> symbols,
            target_weights |-> target_weights] :
             symbols \in SymbolLists, target_weights \in WeightDicts}
    \cup {[op |-> op, pc |-> "called", allocation |-> allocation] :
             op \in {"validate_allocation", "base_validate_allocation"},
             allocation \in WeightDicts}

AllocInit ==
    /\ EngineIdle
    /\ call \in AllocCalls
    /\ ret = Empty

Return(result) ==
    /\ call.pc = "called"
    /\ call' = [call EXCEPT !.pc = "done"]
    /\ ret' = result
    /\ UNCHANGED <<connector, clock, heap, engines, portfolio, cash, raised, prev>>

EqualWeight ==
    call.op = "equal_weight" /\ Return(equal_weight(call.symbols))

MarketCapWeight ==
    /\ call.op = "market_cap_weight"
    /\ Return(market_cap_weight(call.symbols, call.universe))

TargetWeight ==
    /\ call.op = "target_weight"
    /\ Return(target_weight(call.symbols, call.target_weights))

ValidateAllocation ==
    /\ call.op = "validate_allocation"
    /\ Return(validate_allocation(call.allocation))

BaseValidateAllocation ==
    /\ call.op = "base_validate_allocation"
    /\ Return(base_validate_allocation(call.allocation))

AllocNext ==
    \/ EqualWeight
    \/ MarketCapWeight
    \/ TargetWeight
    \/ ValidateAllocation
    \/ BaseValidateAllocation

SpecAlloc == AllocInit /\ [][AllocNext]_vars

Done(op) == call.op = op /\ call.pc = "done"

\* C7: for every symbol list, a list that repeats symbols included, the
\* weights of equal_weight are pairwise equal and sum to 1; the empty list
\* gives the empty mapping.
C7_EqualWeightSumsToOne ==
    Done("equal_weight") =>
        IF call.symbols = Empty THEN ret = Empty
        ELSE /\ \A a, b \in DOMAIN ret : ret[a] = ret[b]
             /\ FSum(ret) = One

\* The selected symbols with a present, non-NaN, positive market cap.
Qualified ==
    IF "market_cap" \in call.universe.columns
    THEN {symbol \in Keys(call.symbols) \cap call.universe.index :
             /\ call.universe.market_cap[symbol] # NaN
             /\ call.universe.market_cap[symbol][1] > 0}
    ELSE {}

\* C8: when some selected symbol has a present, non-NaN, positive market
\* cap, exactly those symbols are in the result, each with its cap divided
\* by the sum of their caps: the weights sum to 1 and a larger cap never has
\* a smaller weight.  When none qualifies the result is the equal-weight
\* allocation of the given symbols.
C8_MarketCapWeight ==
    Done("market_cap_weight") =>
        IF Qualified # {}
        THEN LET cap(symbol) == call.universe.market_cap[symbol][1]
                 RECURSIVE Total(_)
                 Total(S) == IF S = {} THEN 0
                             ELSE LET x == CHOOSE x \in S : TRUE
                                  IN cap(x) + Total(S \ {x})
             IN /\ DOMAIN ret = Qualified
                /\ \A q \in Qualified :
                      /\ IsFinite(ret[q])
                      /\ ret[q][1] * Total(Qualified) = cap(q) * ret[q][2]
                /\ FSum(ret) = One
                /\ \A q, r \in Qualified :
                      cap(q) > cap(r) => ~FGt(ret[r], ret[q])
        ELSE /\ call.symbols = Empty => ret = Empty
             /\ call.symbols # Empty =>
                   /\ DOMAIN ret = Keys(call.symbols)
                   /\ \A q \in DOMAIN ret : ret[q] = F(1, Len(call.symbols))

\* Two selected symbols with different positive caps, in a universe that
\* also holds a symbol without a valid cap.
C8_Witness ==
    /\ Done("market_cap_weight")
    /\ Cardinality(Qualified) = 2
    /\ \E q, r \in Qualified : FGt(ret[q], ret[r])
    /\ \E z \in call.universe.index : ~FGt(call.universe.market_cap[z], Zero)

ValidateDone == Done("validate_allocation") \/ Done("base_validate_allocation")

\* The function the last call applied.
Validate(allocation) ==
    IF call.op = "validate_allocation" THEN validate_allocation(allocation)
    ELSE base_validate_allocation(allocation)

\* C9: both validate_allocation functions return a mapping of positive
\* weights that sum to 1 as it is, and applying them to their own result of
\* a mapping of finite weights changes nothing.
C9_ValidateRoundTrip ==
    ValidateDone =>
        /\ (/\ \A k \in DOMAIN call.allocation : FGt(call.allocation[k], Zero)
            /\ FSum(call.allocation) = One) => ret = call.allocation
        /\ (\A k \in DOMAIN call.allocation : IsFinite(call.allocation[k])) =>
                Validate(ret) = ret

\* A normalized two-symbol mapping returned as it is.
C9_Witness ==
    /\ ValidateDone
    /\ Cardinality(DOMAIN call.allocation) = 2
    /\ FSum(call.allocation) = One
    /\ \A k \in DOMAIN call.allocation : FGt(call.allocation[k], Zero)
    /\ ret = call.allocation

\* The symbol list of the last call, if it took one, repeats no symbol.
DistinctSymbols ==
    "symbols" \in DOMAIN call =>
        Cardinality(Keys(call.symbols)) = Len(call.symbols)

\* C10: the result of validate_allocation and of every allocation
\* algorithm is the empty mapping or holds only finite, positive weights
\* that sum to 1, whatever non-positive, NaN or infinite weights went in.
\* (Stated for symbol lists without repetition, where equal_weight's
\* weights do sum to 1.)
C10_ResultNormalized ==
    (/\ call.pc = "done"
     /\ call.op \in {"equal_weight", "market_cap_weight", "target_weight",
                      "validate_allocation", "base_validate_allocation"}
     /\ DistinctSymbols) =>
        \/ ret = Empty
        \/ /\ \A k \in DOMAIN ret : IsFinite(ret[k]) /\ FGt(ret[k], Zero)
           /\ FSum(ret) = One

(***************************************************************************)
(* StockScreener.by_market_cap, followed by                                *)
(* PortfolioAllocator.market_cap_weight on the selection.  Market caps     *)
(* are in thousands of dollars.                                            *)
(***************************************************************************)
\* min_market_cap: float = 1e9
DefaultMinMarketCap == 1000000

MeetsMinimumStrict(market_cap, min_market_cap) == FGt(market_cap, min_market_cap)

\* universe['market_cap'] >= min_market_cap (False for NaN)
MeetsMinimum(market_cap, min_market_cap) == FLe(min_market_cap, market_cap)

\* The lists that hold every element of rows exactly once.
Orders(rows) ==
    {order \in [1..Cardinality(rows) -> rows] :
        \A i, j \in 1..Cardinality(rows) : order[i] = order[j] => i = j}

\* filtered.sort_values('market_cap', ascending=ascending): the default
\* sort is not stable, so rows of equal market cap come out in any order.
SortValues(rows, market_cap, ascending) ==
    {order \in Orders(rows) :
        \A i, j \in 1..Len(order) :
            i < j => IF ascending
                     THEN ~FGt(market_cap[order[i]], market_cap[order[j]])
                     ELSE ~FGt(market_cap[order[j]], market_cap[order[i]])}

\* sorted_stocks.head(top_n), top_n >= 0
FrameHead(order, top_n) ==
    SubSeq(order, 1, IF top_n < Len(order) THEN top_n ELSE Len(order))

\* StockScreener.by_market_cap: the lists the call may return.
by_market_cap(universe, top_n, ascending, min_market_cap) ==
    IF FrameEmpty(universe) \/ "market_cap" \notin universe.columns
    THEN {Empty}
    ELSE LET filtered == {symbol \in universe.index :
                            MeetsMinimum(universe.market_cap[symbol],
                                         min_market_cap)}
         IN IF filtered = {} THEN {Empty}
            ELSE {FrameHead(sorted_stocks, top_n) :
                     sorted_stocks \in
                         SortValues(filtered, universe.market_cap, ascending)}

\* The inputs: universes whose caps are missing, far below the default
\* minimum, or at and above it; top_n; both sort directions; min_market_cap
\* left at its default or passed as 0.
ScreenCaps ==
    {NaN} \cup {F(k, 1) : k \in 1..3}
          \cup {F(k * DefaultMinMarketCap, 1) : k \in 1..3}

ScreenUniverses ==
    {[columns |-> {"market_cap"}, index |-> DOMAIN caps, market_cap |-> caps] :
        caps \in Dicts(AllocSymbols, ScreenCaps)}
    \cup {[columns |-> {}, index |-> AllocSymbols, market_cap |-> Empty]}

ScreenInit ==
    /\ EngineIdle
    /\ \E universe \in ScreenUniverses, top_n \in 0..MaxTopN,
          ascending \in BOOLEAN,
          min_market_cap \in {F(DefaultMinMarketCap, 1), Zero} :
          call = [op |-> "by_market_cap", pc |-> "called",
                  universe |-> universe, top_n |-> top_n,
                  ascending |-> ascending, min_market_cap |-> min_market_cap,
                  selected |-> Empty]
    /\ ret = Empty

\* selected = screener.by_market_cap(universe, top_n, ascending, min_market_cap)
ByMarketCap ==
    /\ call.op = "by_market_cap"
    /\ call.pc = "called"
    /\ \E selected \in by_market_cap(call.universe, call.top_n, call.ascending,
                                     call.min_market_cap) :
          /\ call' = [call EXCEPT !.pc = "screened", !.selected = selected]
          /\ ret' = selected
    /\ UNCHANGED <<connector, clock, heap, engines, portfolio, cash, raised, prev>>

\* allocator.market_cap_weight(selected, universe)
WeightSelection ==
    /\ call.op = "by_market_cap"
    /\ call.pc = "screened"
    /\ call' = [call EXCEPT !.pc = "done"]
    /\ ret' = market_cap_weight(call.selected, call.universe)
    /\ UNCHANGED <<connector, clock, heap, engines, portfolio, cash, raised, prev>>

ScreenNext == ByMarketCap \/ WeightSelection

SpecScreen == ScreenInit /\ [][ScreenNext]_vars

\* by_market_cap has returned, called with ascending and min_market_cap at
\* their defaults.
ScreenedByDefault ==
    /\ call.op = "by_market_cap"
    /\ call.pc \in {"screened", "done"}
    /\ call.ascending = FALSE
    /\ call.min_market_cap = F(DefaultMinMarketCap, 1)

CapOf(symbol) == call.universe.market_cap[symbol]

\* selected is the top_n of eligible by market cap (all of eligible when
\* fewer), in descending order of market cap.
TopOf(eligible, selected) ==
    /\ Len(selected) = IF call.top_n < Cardinality(eligible)
                       THEN call.top_n ELSE Cardinality(eligible)
    /\ \A i \in 1..Len(selected) : selected[i] \in eligible
    /\ \A i, j \in 1..Len(selected) :
          i < j => /\ selected[i] # selected[j]
                   /\ CapOf(selected[i])[1] >= CapOf(selected[j])[1]
    /\ \A symbol \in eligible \ Keys(selected) :
          \A i \in 1..Len(selected) :
              CapOf(symbol)[1] <= CapOf(selected[i])[1]

Listed ==
    IF "market_cap" \in call.universe.columns THEN call.universe.index ELSE {}

\* The weights of the selection are its market caps over their sum.
WeightedByCap ==
    call.pc = "done" =>
        \/ call.selected = Empty /\ ret = Empty
        \/ /\ DOMAIN ret = Keys(call.selected)
           /\ \A s \in DOMAIN ret :
                 ret[s][1] * FSum([k \in DOMAIN ret |-> CapOf(k)])[1]
                     = CapOf(s)[1] * ret[s][2]

\* C11 as stated: with the other arguments at their defaults the call
\* returns the top_n symbols of the universe by market cap, whatever their
\* caps, in descending order, and market_cap_weight weighs them by cap.
C11_Original ==
    ScreenedByDefault =>
        /\ TopOf({s \in Listed : ~IsNaN(CapOf(s))}, call.selected)
        /\ WeightedByCap

\* C11: with ascending and min_market_cap at their defaults the call returns
\* the top_n symbols, in descending order of market cap, among those whose
\* market cap is at least the default minimum of 1e9 (all of those when
\* fewer, none when no cap reaches 1e9), and market_cap_weight on that
\* selection gives each symbol its cap over the sum of the selected caps.
C11_TopAboveMinimum ==
    ScreenedByDefault =>
        /\ TopOf({s \in Listed : CapOf(s)[2] = 1
                                    /\ CapOf(s)[1] >= DefaultMinMarketCap},
                 call.selected)
        /\ WeightedByCap

\* Caps of 1e9, 2e9 and 3e9 for A, B and C and top_n = 2: C then B are
\* selected and weigh 3/5 and 2/5.
C11_Witness ==
    /\ ScreenedByDefault
    /\ call.pc = "done"
    /\ call.top_n = 2
    /\ Listed = AllocSymbols
    /\ CapOf("A") = F(DefaultMinMarketCap, 1)
    /\ CapOf("B") = F(2 * DefaultMinMarketCap, 1)
    /\ CapOf("C") = F(3 * DefaultMinMarketCap, 1)
    /\ call.selected = <<"C", "B">>
    /\ ret = [s \in {"B", "C"} |-> IF s = "B" THEN F(2, 5) ELSE F(3, 5)]

(***************************************************************************)
(* PerformanceAnalyzer.calculate_metrics                                   *)
(*                                                                         *)
(* A standard deviation is kept exact as a root number <<c, r>>, the       *)
(* float c * sqrt(r) with r > 0; a rational x is <<x, One>> and NaN is     *)
(* <<NaN, One>>.  Uncomputed is a finite float whose value is not          *)
(* computed: a power with a fractional or large exponent.                  *)
(***************************************************************************)
Uncomputed == <<0, -1>>

RootNaN == <<NaN, One>>

RootZero == <<Zero, One>>

\* np.sqrt(x) for x >= 0
Sqrt(x) ==
    IF IsNaN(x) THEN RootNaN
    ELSE IF x = Zero THEN RootZero
    ELSE <<One, x>>

\* a * np.sqrt(k) for a root number a and an integer k > 0
TimesSqrt(a, k) ==
    IF IsNaN(a[1]) \/ a[1] = Zero THEN a ELSE <<a[1], FMul(a[2], F(k, 1))>>

\* a == 0 (False for NaN)
RootIsZero(a) == a[1] = Zero

\* x / a for a float x and a root number a
OverRoot(x, a) ==
    IF IsNaN(x) \/ IsNaN(a[1]) THEN RootNaN
    ELSE IF a[1] = Zero
         THEN <<IF x = Uncomputed THEN NaN ELSE FDiv(x, Zero), One>>
    ELSE IF x = Uncomputed THEN <<Uncomputed, One>>
    ELSE <<FDiv(x, FMul(a[1], a[2])), a[2]>>

\* x - y and x / y where x may be Uncomputed and y is finite and not 0
Minus(x, y) == IF x = Uncomputed THEN Uncomputed ELSE FSub(x, y)

Over(x, y) ==
    IF IsNaN(y) THEN NaN
    ELSE IF x = Uncomputed THEN Uncomputed
    ELSE FDiv(x, y)

\* base ** exponent for base > 0: exact where the result is rational for
\* every exponent, not computed elsewhere.
Power(base, exponent) ==
    IF base = One THEN One
    ELSE IF exponent = One THEN base
    ELSE Uncomputed

FAbs(x) == <<Abs(x[1]), x[2]>>

\* Series.dropna()
DropNa(xs) == SelectSeq(xs, LAMBDA x : ~IsNaN(x))

\* Series.sum() and Series.mean()
RECURSIVE SumBetween(_, _, _)
SumBetween(xs, lo, hi) ==
    IF lo > hi THEN Zero
    ELSE IF lo = hi THEN xs[lo]
    ELSE LET mid == (lo + hi) \div 2
         IN FAdd(SumBetween(xs, lo, mid), SumBetween(xs, mid + 1, hi))

SeriesSum(xs) == SumBetween(xs, 1, Len(xs))

SeriesMean(xs) ==
    IF xs = Empty THEN NaN ELSE FDiv(SeriesSum(xs), F(Len(xs), 1))

\* Series.std(): the sample standard deviation (ddof = 1), NaN for fewer
\* than two entries.
SeriesStd(xs) ==
    IF Len(xs) < 2 THEN RootNaN
    ELSE LET mean == SeriesMean(xs)
             squares == [i \in 1..Len(xs) |->
                            FMul(FSub(xs[i], mean), FSub(xs[i], mean))]
         IN Sqrt(FDiv(SeriesSum(squares), F(Len(xs) - 1, 1)))

\* risk_free_rate: float = 0.05
risk_free_rate == F(5, 100)

\* Trading days per year
TradingDays == 252

\* _calculate_total_return, for a history that is not empty
_calculate_total_return(values, initial_capital) ==
    LET final_value == values[Len(values)]
    IN FDiv(FSub(final_value, initial_capital), initial_capital)

\* _calculate_annualized_return
_calculate_annualized_return(values, initial_capital) ==
    LET total_return == _calculate_total_return(values, initial_capital)
        days == Len(values)
        years == F(days, TradingDays)
    IN IF FGt(years, Zero)
       THEN Minus(Power(FAdd(One, total_return), FDiv(One, years)), One)
       ELSE Zero

\* _calculate_volatility
_calculate_volatility(daily_returns) ==
    TimesSqrt(SeriesStd(daily_returns), TradingDays)

\* _calculate_sharpe_ratio
_calculate_sharpe_ratio(daily_returns, annualized_return, volatility) ==
    IF RootIsZero(volatility) THEN RootZero
    ELSE OverRoot(Minus(annualized_return, risk_free_rate), volatility)

\* t['action'] == 'SELL'
CountsAsWin(action) == action = "SELL"

\* _count_winning_trades
_count_winning_trades(trades) ==
    Len(SelectSeq(trades, LAMBDA t : CountsAsWin(t.action)))

\* excess_returns < target_return
IsDownside(excess_return, target_return) == FGt(target_return, excess_return)

\* _calculate_sortino_ratio, target_return = 0
_calculate_sortino_ratio(daily_returns) ==
    LET excess_returns ==
            [i \in 1..Len(daily_returns) |->
                FSub(daily_returns[i], FDiv(risk_free_rate, F(TradingDays, 1)))]
        downside_returns ==
            SelectSeq(excess_returns, LAMBDA x : IsDownside(x, Zero))
        downside_deviation == TimesSqrt(SeriesStd(downside_returns), TradingDays)
        annualized_excess_return ==
            FMul(SeriesMean(excess_returns), F(TradingDays, 1))
    IN IF Len(downside_returns) = 0 THEN RootZero
       ELSE IF RootIsZero(downside_deviation) THEN RootZero
       ELSE OverRoot(annualized_excess_return, downside_deviation)

\* _calculate_calmar_ratio
_calculate_calmar_ratio(annualized_return, max_drawdown) ==
    IF max_drawdown = Zero THEN Zero
    ELSE Over(annualized_return, FAbs(max_drawdown))

\* calculate_metrics for a history that is not empty and an empty
\* benchmark_data (the benchmark block is skipped).
calculate_metrics(values, trades, initial_capital) ==
    LET total_return == _calculate_total_return(values, initial_capital)
        annualized_return == _calculate_annualized_return(values, initial_capital)
        daily_returns == DropNa(PctChange(values))
        volatility == _calculate_volatility(daily_returns)
        max_drawdown == _calculate_max_drawdown(values)
        total_trades == Len(trades)
        winning_trades == _count_winning_trades(trades)
    IN [total_return |-> total_return,
        annualized_return |-> annualized_return,
        volatility |-> volatility,
        sharpe_ratio |-> _calculate_sharpe_ratio(daily_returns,
                                                 annualized_return, volatility),
        max_drawdown |-> max_drawdown,
        total_trades |-> total_trades,
        winning_trades |-> winning_trades,
        win_rate |-> IF total_trades > 0
                     THEN F(winning_trades, total_trades) ELSE Zero,
        sortino_ratio |-> _calculate_sortino_ratio(daily_returns),
        calmar_ratio |-> _calculate_calmar_ratio(annualized_return, max_drawdown)]

\* The trade ledgers: trades as the engine records them and as the
\* analyzer counts them.
TradeLedgers ==
    {Empty, <<[action |-> "buy"]>>, <<[action |-> "buy"], [action |-> "sell"]>>,
     <<[action |-> "buy"], [action |-> "SELL"]>>}

MetricsInit ==
    /\ EngineIdle
    /\ \E values \in ValueSeries, trades \in TradeLedgers,
          initial_capital \in 1..MaxValue :
          call = [op |-> "calculate_metrics", pc |-> "called",
                  values |-> values, benchmark_empty |-> TRUE,
                  trades |-> trades, initial_capital |-> F(initial_capital, 1)]
    /\ ret = Empty

\* portfolio_values['value'].iloc[-1] raises IndexError on an empty history
CalculateMetricsRaises ==
    /\ call.op = "calculate_metrics"
    /\ call.pc = "called"
    /\ call.values = Empty
    /\ call' = [call EXCEPT !.pc = "done"]
    /\ raised' = TRUE
    /\ UNCHANGED <<connector, clock, heap, engines, portfolio, cash, prev, ret>>

CalculateMetrics ==
    /\ call.op = "calculate_metrics"
    /\ call.pc = "called"
    /\ call.values # Empty
    /\ call' = [call EXCEPT !.pc = "done"]
    /\ ret' = calculate_metrics(call.values, call.trades, call.initial_capital)
    /\ UNCHANGED <<connector, clock, heap, engines, portfolio, cash, raised, prev>>

MetricsNext == CalculateMetrics \/ CalculateMetricsRaises

SpecMetrics == MetricsInit /\ [][MetricsNext]_vars

MetricsDone == call.op = "calculate_metrics" /\ call.pc = "done"

\* The history has at most one daily return, or all its values are equal.
Degenerate(values) ==
    Len(values) <= 2 \/ \A i \in 1..Len(values) : values[i] = values[1]

\* C12: calculate_metrics never raises, and volatility, sharpe_ratio,
\* sortino_ratio, calmar_ratio, max_drawdown and win_rate are defined numbers
\* for every history (empty, single point, two points, constant and longer)
\* with an empty trade ledger and an empty benchmark, 0 for volatility and
\* the ratios when the history is degenerate.
C12_AlwaysDefined ==
    (MetricsDone /\ call.trades = Empty /\ call.benchmark_empty) =>
        /\ ~raised
        /\ ret # Empty
        /\ ~IsNaN(ret.volatility[1])
        /\ ~IsNaN(ret.sharpe_ratio[1])
        /\ ~IsNaN(ret.sortino_ratio[1])
        /\ ~IsNaN(ret.calmar_ratio)
        /\ ~IsNaN(ret.max_drawdown)
        /\ ret.win_rate = Zero
        /\ Degenerate(call.values) =>
              /\ ret.volatility = RootZero
              /\ ret.sharpe_ratio = RootZero
              /\ ret.sortino_ratio = RootZero
              /\ ret.calmar_ratio = Zero

\* The daily returns of the history, and those below the daily risk-free
\* rate 0.05 / 252 = 1 / 5040.
DailyReturn(i) ==
    FSub(FDiv(call.values[i + 1], call.values[i]), One)

DownsideDays ==
    {i \in 1..(Len(call.values) - 1) :
        DailyReturn(i)[1] * 5040 < DailyReturn(i)[2]}

\* The sample variance of the downside returns, from their pairwise
\* differences, times 252.
DownsideVariance ==
    LET n == Cardinality(DownsideDays)
        pairs == {p \in DownsideDays \X DownsideDays : p[1] < p[2]}
        square(p) == LET d == FSub(DailyReturn(p[1]), DailyReturn(p[2]))
                     IN FMul(d, d)
    IN FMul(FDiv(FSum([p \in pairs |-> square(p)]), F(n * (n - 1), 1)),
            F(252, 1))

\* The root number x / sqrt(v), v > 0.
OverSqrt(x, v) == <<FDiv(x, v), v>>

\* C20: sortino_ratio is (annualized_return - risk_free_rate) over
\* the annualized standard deviation of the downside daily excess returns,
\* and 0 without downside observations (histories whose annualized return
\* is computed exactly and that have a positive downside deviation).
C20_SameNumerator ==
    (MetricsDone /\ ~raised) =>
        /\ DownsideDays = {} => ret.sortino_ratio = RootZero
        /\ (/\ Cardinality(DownsideDays) >= 2
            /\ DownsideVariance # Zero
            /\ ret.annualized_return # Uncomputed) =>
              ret.sortino_ratio =
                  OverSqrt(FSub(ret.annualized_return, F(1, 20)),
                           DownsideVariance)

(***************************************************************************)
(* BacktestEngine.run and BacktestEngine._load_data                        *)
(***************************************************************************)
\* BacktestEngine._load_data: return {}
_load_data(symbols, start_date, end_date) == Empty

\* The schedule get_rebalance_dates returns, for run's short periods.
RECURSIVE RebalanceDatesFrom(_, _, _)
RebalanceDatesFrom(current_date, end_date, freq_days) ==
    IF LoopContinues(current_date, end_date)
    THEN <<current_date>>
             \o RebalanceDatesFrom(current_date + freq_days, end_date, freq_days)
    ELSE Empty

get_rebalance_dates(start_date, end_date, rebalance_frequency) ==
    RebalanceDatesFrom(start_date, end_date, FreqDays(rebalance_frequency))

\* pd.date_range(start_date, end_date, freq='D') next to
\* [initial_capital * (1 + 0.15 * i / 365) for i in range(days + 1)]
MockPortfolioValues(start_date, end_date, initial_capital) ==
    [k \in 1..(end_date - start_date + 1) |->
        [date |-> start_date + (k - 1),
         value |-> FMul(F(initial_capital, 1),
                        FAdd(One, FDiv(FMul(F(15, 100), F(k - 1, 1)),
                                       F(365, 1))))]]

\* BacktestEngine.run: the result bundle.
run(start_date, end_date, universe, benchmark, initial_capital) ==
    [start_date |-> start_date,
     end_date |-> end_date,
     initial_capital |-> F(initial_capital, 1),
     final_value |-> FMul(F(initial_capital, 1), F(115, 100)),
     total_return |-> F(15, 100),
     annualized_return |-> F(12, 100),
     volatility |-> F(18, 100),
     sharpe_ratio |-> F(67, 100),
     max_drawdown |-> F(-8, 100),
     trades |-> Empty,
     portfolio_values |->
         MockPortfolioValues(start_date, end_date, initial_capital),
     universe |-> universe,
     benchmark |-> benchmark]

\* A run of the engine as constructed, for a strategy with any frequency
\* name, over a period of up to MaxRunSpan days (or an empty period).
\* strategy_calls is the log of the run's calls to the strategy, to the trade
\* executor and to the valuation, each with the rebalance date it is for.
RunInit ==
    /\ EngineIdle
    /\ \E start_date \in 0..MaxStart, span \in -1..MaxRunSpan,
          rebalance_frequency \in FrequencyNames, universe \in SymbolLists :
          call = [op |-> "run", pc |-> "called",
                  start_date |-> start_date, end_date |-> start_date + span,
                  rebalance_frequency |-> rebalance_frequency,
                  universe |-> universe, benchmark |-> "SPY",
                  strategy_calls |-> Empty]
    /\ ret = Empty

\* run never reads price data and never raises: it returns the bundle. It
\* calls neither the strategy nor _rebalance_portfolio nor
\* _calculate_portfolio_value, so the log of calls stays as it was.
Run ==
    /\ call.op = "run"
    /\ call.pc = "called"
    /\ call' = [call EXCEPT !.pc = "completed"]
    /\ ret' = run(call.start_date, call.end_date, call.universe,
                  call.benchmark, InitialCapital)
    /\ UNCHANGED <<connector, clock, heap, engines, portfolio, cash, raised, prev>>

SpecRun == RunInit /\ [][Run]_vars

RunEnded == call.op = "run" /\ call.pc # "called"

\* C13: when there is no price data at all for the universe, run returns no
\* result bundle: it fails (DataUnavailableError) and ends FAILED.
C13_FailsWithoutData ==
    (/\ RunEnded
     /\ _load_data(call.universe, call.start_date, call.end_date) = Empty) =>
        /\ raised
        /\ call.pc = "failed"
        /\ ret = Empty

\* C18: the valuation history of the result has exactly one entry per date
\* of get_rebalance_dates(start_date, end_date) for the strategy's
\* frequency, in ascending order, and none for any other date.
C18_EntryPerRebalanceDate ==
    (RunEnded /\ ~raised) =>
        [k \in 1..Len(ret.portfolio_values) |-> ret.portfolio_values[k].date]
            = get_rebalance_dates(call.start_date, call.end_date,
                                  call.rebalance_frequency)

\* C14: for a rebalance_frequency outside the five defined names
\* get_rebalance_dates fails (ConfigurationError): it returns no schedule,
\* so it never steps by another frequency's day count.
C14_UnknownFrequencyFails ==
    (/\ DatesReturned
     /\ call.start_date <= call.end_date
     /\ call.rebalance_frequency \notin DOMAIN frequency_map) =>
        /\ raised
        /\ ret = Empty

\* C15: when the target allocation is empty, or none of its weights is
\* positive (its valid weights sum to 0), the rebalance goes to cash: no
\* position is left with a weight, and every symbol held above the trade
\* threshold got a sell trade.
C15_GoToCash ==
    (Allocated /\ \A s \in DOMAIN call.target : call.target[s] <= 0) =>
        /\ \A s \in DOMAIN portfolio : portfolio[s] = 0
        /\ \A s \in DOMAIN prev.portfolio :
              prev.portfolio[s] > Threshold =>
                  \E i \in TradesOf(s) : ret[i].action = "sell"

(***************************************************************************)
(* Rebalances whose target allocation was not validated.                   *)
(***************************************************************************)
\* Target weights as a strategy may return them: negative, 0, 1 and above 1
\* (in hundredths).
AnyWeights == {-2, 0, 100, 102}

AllPriced == [s \in Symbols |-> OneRowFrame]

RebalanceAnyTarget == RebalanceOf({1}, Dicts(Symbols, AnyWeights), {AllPriced})

SpecAnyTarget == Init /\ [][RebalanceAnyTarget]_vars

\* C16: after any sequence of rebalances, whatever weights the strategy
\* returned (negative or above 1 included), every position weight is in
\* [0, 1].
C16_WeightsInUnitInterval ==
    \A s \in DOMAIN portfolio : 0 <= portfolio[s] /\ portfolio[s] <= 100

(***************************************************************************)
(* BacktestEngine._calculate_portfolio_value                               *)
(***************************************************************************)
\* Weights are in hundredths: target_weight 1 is the float 0.01.
WeightUnits == 100

PriceAvailableStrict(frame, date) ==
    "close" \in frame.columns /\ \E d \in frame.index : d < date

\* price_df[price_df.index <= date]['close'].iloc[-1] finds a price:
\* KeyError without a close column, IndexError without a row at or before
\* the date.
PriceAvailable(frame, date) ==
    "close" \in frame.columns /\ \E d \in frame.index : d <= date

\* The loop over self.portfolio.items(), from the i-th symbol on.
RECURSIVE AddPositions(_, _, _, _, _)
AddPositions(total_value, p, date, price_data, i) ==
    IF i > Len(SymbolOrder) THEN total_value
    ELSE LET symbol == SymbolOrder[i]
             counted ==
                /\ symbol \in DOMAIN p
                /\ HasPriceData(price_data, symbol)
                /\ PriceAvailable(price_data[symbol], date)
             position_value == (p[symbol] * InitialCapital) \div WeightUnits
         IN AddPositions(IF counted THEN total_value + position_value
                         ELSE total_value,
                         p, date, price_data, i + 1)

_calculate_portfolio_value(p, c, date, price_data) ==
    AddPositions(c, p, date, price_data, 1)

\* The price frames of a valuation: any rows among the dates with any close
\* prices, and a frame that has a row but no close column.
NoCloseFrame == [index |-> {1}, columns |-> {"open"}, close |-> Empty]

ValueFrames ==
    {[index |-> DOMAIN close, columns |-> {"close"}, close |-> close] :
        close \in Dicts(1..MaxDate, Prices)}
    \cup {NoCloseFrame}

\* The rebalances that build the positions to be valued.
RebalancePriced ==
    RebalanceOf({1}, Dicts(Symbols, 0..MaxWeight), {AllPriced})

\* One call of _calculate_portfolio_value after a rebalance or on the new
\* engine (a valuation changes nothing, so valuing twice in a row reaches
\* no other state of the engine).
Value ==
    /\ ~raised
    /\ call.op # "value"
    /\ \E date \in 1..MaxDate, price_data \in Dicts(Symbols, ValueFrames) :
          /\ call' = [op |-> "value", date |-> date, price_data |-> price_data]
          /\ ret' = _calculate_portfolio_value(portfolio, cash, date, price_data)
    /\ prev' = [portfolio |-> portfolio, cash |-> cash]
    /\ UNCHANGED <<connector, clock, heap, engines, portfolio, cash, raised>>

ValueNext == RebalancePriced \/ Value

SpecValue == Init /\ [][ValueNext]_vars

Valued == call.op = "value"

\* The symbol is held and has a close price at or before the valuation date.
Priced(symbol) ==
    /\ symbol \in DOMAIN portfolio
    /\ symbol \in DOMAIN call.price_data
    /\ "close" \in call.price_data[symbol].columns
    /\ \E d \in 1..call.date : d \in call.price_data[symbol].index

\* The weights of the given held symbols, summed.
RECURSIVE WeightSum(_)
WeightSum(held) ==
    IF held = {} THEN 0
    ELSE LET s == CHOOSE s \in held : TRUE
         IN portfolio[s] + WeightSum(held \ {s})

\* C17 as stated: for any price data the value is cash plus the sum of all
\* position weights times the invested capital.
C17_Original ==
    Valued => ret * 100 = cash * 100 + WeightSum(DOMAIN portfolio) * InitialCapital

\* C17: the value is cash plus the invested capital times the sum of the
\* weights of the positions that have a close price at or before the
\* valuation date; a position without price data, without a close column or
\* without a row at or before the date adds nothing.
C17_ValueOfPricedPositions ==
    Valued =>
        ret * 100 = cash * 100
                    + WeightSum({s \in Symbols : Priced(s)}) * InitialCapital

\* Two positions are held, one priced on the valuation date itself and one
\* whose only price is later.
C17_Witness ==
    /\ Valued
    /\ \A s \in Symbols : s \in DOMAIN portfolio /\ portfolio[s] > 0
    /\ \E s, t \in Symbols :
          /\ Priced(s)
          /\ call.price_data[s].index = {call.date}
          /\ ~Priced(t)
          /\ t \in DOMAIN call.price_data
          /\ call.price_data[t].index # {}
    /\ ret > cash

(***************************************************************************)
(* Several BacktestEngine instances.  heap is the list of the dictionaries *)
(* and lists created so far, an object's address its index; engines maps   *)
(* an instance to its attributes, references for portfolio,                *)
(* portfolio_values and trades.                                            *)
(***************************************************************************)
Instances == {"e1", "e2"}

\* strategy.initial_capital of the strategies the engines are built for.
Capitals == {InitialCapital, 50000}

AllocateShared(h) == 1

\* The address of the object a {} or [] expression creates.
Allocate(h) == Len(h) + 1

\* The heap with the object at the address set to the value.
Store(h, address, value) ==
    IF address > Len(h) THEN Append(h, value)
    ELSE [h EXCEPT ![address] = value]

\* What an instance's attributes hold.
View(e) ==
    [portfolio |-> heap[engines[e].portfolio],
     cash |-> engines[e].cash,
     portfolio_values |-> heap[engines[e].portfolio_values],
     trades |-> heap[engines[e].trades]]

Views == [e \in DOMAIN engines |-> View(e)]

InstancesInit ==
    /\ EngineIdle
    /\ call = [op |-> "init"]
    /\ ret = Empty

\* BacktestEngine.__init__(strategy)
Construct ==
    /\ ~raised
    /\ \E e \in Instances \ DOMAIN engines, initial_capital \in Capitals :
          LET portfolio_at == Allocate(heap)
              h1 == Store(heap, portfolio_at, Empty)
              portfolio_values_at == Allocate(h1)
              h2 == Store(h1, portfolio_values_at, Empty)
              trades_at == Allocate(h2)
              h3 == Store(h2, trades_at, Empty)
          IN /\ heap' = h3
             /\ engines' =
                   [i \in DOMAIN engines \cup {e} |->
                       IF i = e
                       THEN [strategy |-> [initial_capital |-> initial_capital],
                             portfolio |-> portfolio_at,
                             cash |-> initial_capital,
                             portfolio_values |-> portfolio_values_at,
                             trades |-> trades_at]
                       ELSE engines[i]]
             /\ call' = [op |-> "construct", engine |-> e]
    /\ ret' = Empty
    /\ prev' = Views
    /\ UNCHANGED <<connector, clock, portfolio, cash, raised>>

\* The target weights of the instances' rebalances.
InstanceWeights == {0, 2}

\* _rebalance_portfolio on one of the instances.
RebalanceInstance ==
    /\ ~raised
    /\ \E e \in DOMAIN engines, outcome \in Outcomes,
          target_allocation \in Dicts(Symbols, InstanceWeights) :
          /\ outcome # "allocated" => target_allocation = Empty
          /\ LET r == _rebalance_portfolio(heap[engines[e].portfolio], 1,
                                           outcome, target_allocation,
                                           AllPriced)
             IN /\ heap' = Store(heap, engines[e].portfolio, r.portfolio)
                /\ ret' = r.trades
                /\ raised' = r.raised
                /\ call' = [op |-> "rebalance", engine |-> e,
                            outcome |-> outcome, target |-> target_allocation]
    /\ prev' = Views
    /\ UNCHANGED <<connector, clock, portfolio, cash, engines>>

InstancesNext == Construct \/ RebalanceInstance

SpecInstances == InstancesInit /\ [][InstancesNext]_vars

ActedOnInstance == call.op \in {"construct", "rebalance"}

\* C19: a newly constructed engine has cash equal to its strategy's
\* initial_capital and empty positions, trade ledger and valuation history;
\* and constructing or rebalancing one engine leaves the positions, cash,
\* trade ledger and valuation history of every other engine unchanged.
C19_FreshAndIsolated ==
    /\ call.op = "construct" =>
          View(call.engine) =
              [portfolio |-> Empty,
               cash |-> engines[call.engine].strategy.initial_capital,
               portfolio_values |-> Empty,
               trades |-> Empty]
    /\ ActedOnInstance =>
          \A e \in DOMAIN engines \ {call.engine} :
              e \in DOMAIN prev /\ View(e) = prev[e]

\* One engine has just traded while the other holds different positions.
C19_Witness ==
    /\ call.op = "rebalance"
    /\ ret # Empty
    /\ DOMAIN engines = Instances
    /\ \A e \in Instances : View(e).portfolio # Empty
    /\ View("e1").portfolio # View("e2").portfolio
    /\ View("e1").cash # View("e2").cash

\* The trades of the ledger are trades as the executor records them.
ExecutorLedger ==
    \A i \in 1..Len(call.trades) :
        \E target, current \in 0..MaxWeight :
            call.trades[i].action = TradeAction(target, current)

SellTrades == {i \in 1..Len(call.trades) : call.trades[i].action = "sell"}

\* C21: for a ledger of the executor's trades, winning_trades is the number
\* of its sell trades and win_rate is winning_trades / total_trades (0 for
\* the empty ledger), so win_rate is in [0, 1] and positive whenever the
\* ledger holds a sell trade.
C21_WinRateCountsSells ==
    (MetricsDone /\ ~raised /\ ExecutorLedger) =>
        /\ ret.total_trades = Len(call.trades)
        /\ ret.winning_trades = Cardinality(SellTrades)
        /\ ret.win_rate = IF call.trades = Empty THEN Zero
                          ELSE F(Cardinality(SellTrades), Len(call.trades))
        /\ FLe(Zero, ret.win_rate) /\ FLe(ret.win_rate, One)
        /\ SellTrades # {} => FGt(ret.win_rate, Zero)

\* The commission rate of a strategy, a fraction of the traded amount.
commission == F(1, 1000)

\* The commission on a trade: the traded weight, in units of the capital.
CommissionOn(trade) ==
    FMul(FMul(F(Abs(trade.target_weight - trade.current_weight), WeightUnits),
              F(InitialCapital, 1)),
         commission)

\* C22: every trade of a rebalance carries a commission_cost equal to
\* |target_weight - current_weight| x invested capital x commission rate,
\* and the cost is charged: a rebalance that trades lowers the cash.
C22_CommissionCharged ==
    Rebalanced =>
        /\ \A i \in 1..Len(ret) :
              /\ "commission_cost" \in DOMAIN ret[i]
              /\ ret[i].commission_cost = CommissionOn(ret[i])
        /\ ret # Empty => cash < prev.cash

\* The date of the symbol's latest close at or before the valuation date.
LatestDate(symbol) ==
    CHOOSE d \in call.price_data[symbol].index :
        /\ d <= call.date
        /\ \A e \in call.price_data[symbol].index : e <= call.date => e <= d

\* The price data of the valuation with the symbol's latest close doubled.
LatestCloseDoubled(symbol) ==
    [call.price_data EXCEPT ![symbol].close[LatestDate(symbol)] = 2 * @]

\* The price data of the valuation without the rows after its date.
UpToDate(frame) ==
    [frame EXCEPT !.index = {d \in @ : d <= call.date},
                  !.close = [d \in {e \in DOMAIN @ : e <= call.date} |-> @[d]]]

\* C23: the value marks the positions to market with carry-forward: it
\* never depends on a price later than the valuation date, and it follows
\* the latest close at or before the date, so that doubling that close of a
\* held, priced position makes the portfolio worth more.
C23_MarkToMarket ==
    Valued =>
        /\ ret = _calculate_portfolio_value(portfolio, cash, call.date,
                    [s \in DOMAIN call.price_data |->
                        UpToDate(call.price_data[s])])
        /\ \A s \in Symbols :
              (Priced(s) /\ portfolio[s] > 0) =>
                  _calculate_portfolio_value(portfolio, cash, call.date,
                                             LatestCloseDoubled(s)) > ret

\* The steps of one rebalance date, in the order of the cycle.
CycleSteps ==
    <<"screen_stocks", "generate_signals", "allocate_portfolio",
      "execute_trades", "value">>

\* The positions of the log that hold the given step of the given date.
CallsOf(step, date) ==
    {i \in 1..Len(call.strategy_calls) :
        call.strategy_calls[i] = [step |-> step, date |-> date]}

C25_NoZeroPosition ==
    Rebalanced => \A s \in DOMAIN portfolio : portfolio[s] # 0

(***************************************************************************)
(* Rebalances to normalized targets.                                       *)
(***************************************************************************)
\* The target weights of a normalized allocation, in hundredths.
NormalizedWeights == {0, 50, 100}

\* The sum of the weights of an allocation.
RECURSIVE TotalWeight(_)
TotalWeight(allocation) ==
    IF DOMAIN allocation = {} THEN 0
    ELSE LET s == CHOOSE s \in DOMAIN allocation : TRUE
         IN allocation[s]
            + TotalWeight([t \in DOMAIN allocation \ {s} |-> allocation[t]])

\* Allocations as validate_allocation returns them: weights that are not
\* negative and sum to 1.
NormalizedTargets ==
    {allocation \in Dicts(Symbols, NormalizedWeights) :
        TotalWeight(allocation) = WeightUnits}

RebalanceNormalized ==
    RebalanceOf(1..MaxDate, NormalizedTargets, Dicts(Symbols, {OneRowFrame}))

SpecNormalized == Init /\ [][RebalanceNormalized]_vars

\* C27: executing trades never creates value: with the prices unchanged the
\* value right after a rebalance is at most the value right before it, and
\* a fully invested portfolio is valued at the initial capital, not above.
C27_NoValueCreated ==
    Rebalanced =>
        /\ _calculate_portfolio_value(portfolio, cash, call.date,
                                      call.price_data)
              <= _calculate_portfolio_value(prev.portfolio, prev.cash,
                                            call.date, call.price_data)
        /\ (TotalWeight(portfolio) = WeightUnits
            /\ \A s \in DOMAIN portfolio : HasPriceData(call.price_data, s)) =>
              _calculate_portfolio_value(portfolio, cash, call.date,
                                         call.price_data) = InitialCapital

\* C28: after any sequence of rebalances to normalized targets the weights
\* of the positions sum to at most 1.
C28_WeightsSumToAtMostOne ==
    Rebalanced => TotalWeight(portfolio) <= WeightUnits

\* C29: the result bundle of a run over start_date <= end_date is
\* consistent: final_value is the last value of portfolio_values, and
\* total_return is (final_value - initial_capital) / initial_capital.
C29_ConsistentBundle ==
    (RunEnded /\ ~raised /\ call.start_date <= call.end_date) =>
        /\ ret.final_value
              = ret.portfolio_values[Len(ret.portfolio_values)].value
        /\ ret.total_return
              = FDiv(FSub(ret.final_value, ret.initial_capital),
                     ret.initial_capital)

(***************************************************************************)
(* The FMP connector's rate limiter (data/connectors/fmp.py).  Times are   *)
(* in tenths of a second.                                                  *)
(***************************************************************************)
FMP_RATE_LIMIT_PER_MINUTE == 250

\* The length of the rate-limit window: 60 seconds.
Window == 600

\* The minimum delay between two requests: 0.1 second.
min_delay == 1

\* FMPConnector.__init__ at the given time (with an API key).
NewConnector(time) ==
    [rate_limit_per_minute |-> FMP_RATE_LIMIT_PER_MINUTE,
     last_request_time |-> 0,
     request_count |-> 0,
     rate_limit_window_start |-> time]

\* One call of _rate_limit that reads the time current_time on entry;
\* time.sleep(t) returns t later.  The result is the connector and the time
\* on return.
_rate_limit(self, current_time) ==
    LET expired == current_time - self.rate_limit_window_start > Window
        counted == IF expired
                   THEN [self EXCEPT !.request_count = 0,
                                     !.rate_limit_window_start = current_time]
                   ELSE self
        sleep_time == Window - (current_time - counted.rate_limit_window_start)
        sleeps == /\ counted.request_count >= counted.rate_limit_per_minute
                  /\ sleep_time > 0
        woken == IF sleeps THEN current_time + sleep_time ELSE current_time
        limited == IF sleeps
                   THEN [counted EXCEPT !.request_count = 0,
                                        !.rate_limit_window_start = woken]
                   ELSE counted
        time_since_last == current_time - limited.last_request_time
        delayed == IF time_since_last < min_delay
                   THEN woken + (min_delay - time_since_last)
                   ELSE woken
    IN [self |-> [limited EXCEPT !.last_request_time = delayed,
                                 !.request_count = @ + 1],
        time |-> delayed]

\* The times at which the next request may arrive: at once, a minimum delay
\* later, exactly when the window is 60 seconds old, or a tenth after that.
Arrivals ==
    {t \in {clock, clock + min_delay,
            connector.rate_limit_window_start + Window,
            connector.rate_limit_window_start + Window + 1} :
        clock <= t /\ t <= MaxTime}

\* The connector as constructed at a time of min_delay..MaxStartTime (the
\* epoch is long past); the engine is idle.
ConnectorInit ==
    /\ portfolio = Empty
    /\ cash = InitialCapital
    /\ raised = FALSE
    /\ prev = [portfolio |-> Empty, cash |-> InitialCapital]
    /\ heap = Empty
    /\ engines = Empty
    /\ call = [op |-> "init"]
    /\ ret = Empty
    /\ clock \in min_delay..MaxStartTime
    /\ connector = NewConnector(clock)

\* A request: _make_request calls _rate_limit at the time it arrives.
RateLimit ==
    \E current_time \in Arrivals :
        LET r == _rate_limit(connector, current_time)
        IN /\ connector' = r.self
           /\ clock' = r.time
           /\ call' = [op |-> "_rate_limit", current_time |-> current_time]
           /\ UNCHANGED <<portfolio, cash, ret, raised, prev, heap, engines>>

SpecConnector == ConnectorInit /\ [][RateLimit]_vars

\* C30: after every call of _rate_limit, whenever the calls arrive,
\* request_count is between 1 and rate_limit_per_minute: no more than
\* rate_limit_per_minute requests are counted within one window.
C30_CountWithinLimit ==
    call.op = "_rate_limit" =>
        /\ 1 <= connector.request_count
        /\ connector.request_count <= connector.rate_limit_per_minute

(***************************************************************************)
(* PortfolioAllocator.inverse_volatility_weight, risk_parity and           *)
(* minimum_variance.  A series of returns is a record of the index label   *)
(* of its first entry and the sequence of its values.                      *)
(***************************************************************************)
\* lookback_days: int = 252
DefaultLookbackDays == 252

\* The least history of inverse_volatility_weight: 20 prices, 10 returns.
MinPrices == 20
MinReturns == 10

\* The least history of risk_parity and minimum_variance: 50 prices, 20
\* returns, 20 rows of returns shared by the symbols.
ParityMinPrices == 50
ParityMinReturns == 20
MinOverlap == 20

\* len(prices)
Rows(prices) == Cardinality(prices.index)

\* prices['close'].pct_change().dropna() for a frame with rows
ReturnsOf(prices) ==
    LET first == CHOOSE d \in prices.index : \A e \in prices.index : d <= e
        closes == [i \in 1..Rows(prices) |->
                      F(prices.close[first + i - 1], 1)]
    IN [first |-> first + 1, values |-> DropNa(PctChange(closes))]

\* returns.tail(lookback_days) if len(returns) > lookback_days
Lookback(returns, lookback_days) ==
    IF Len(returns.values) > lookback_days
    THEN [first |-> returns.first + Len(returns.values) - lookback_days,
          values |-> SubSeq(returns.values,
                            Len(returns.values) - lookback_days + 1,
                            Len(returns.values))]
    ELSE returns

\* Series.var(): the sample variance (ddof = 1)
SeriesVar(xs) ==
    IF Len(xs) < 2 THEN NaN
    ELSE LET mean == SeriesMean(xs)
             squares == [i \in 1..Len(xs) |->
                            FMul(FSub(xs[i], mean), FSub(xs[i], mean))]
         IN FDiv(SeriesSum(squares), F(Len(xs) - 1, 1))

\* volatility > 0 for a root number
RootPositive(a) == FGt(a[1], Zero) /\ FGt(a[2], Zero)

\* (1 / vol) / sum(1 / vol) for root numbers: 1/0 is +inf, so a zero
\* volatility gets inf/inf = NaN and leaves 0 to the others; equal
\* volatilities share equally; the other shares are finite and not computed.
InverseShares(vols) ==
    [s \in DOMAIN vols |->
        IF \E t \in DOMAIN vols : IsNaN(vols[t][1]) THEN NaN
        ELSE IF \E t \in DOMAIN vols : RootIsZero(vols[t])
             THEN (IF RootIsZero(vols[s]) THEN NaN ELSE Zero)
        ELSE IF \A t \in DOMAIN vols : vols[t] = vols[s]
             THEN F(1, Cardinality(DOMAIN vols))
        ELSE Uncomputed]

\* The symbols that inverse_volatility_weight's loop does not skip before
\* it computes the volatility.
HasHistory(symbol, price_data) ==
    /\ symbol \in DOMAIN price_data
    /\ "close" \in price_data[symbol].columns
    /\ Rows(price_data[symbol]) >= MinPrices
    /\ Len(ReturnsOf(price_data[symbol]).values) >= MinReturns

VolatilityOf(symbol, price_data, lookback_days) ==
    SeriesStd(Lookback(ReturnsOf(price_data[symbol]), lookback_days).values)

inverse_volatility_weight(symbols, price_data, lookback_days) ==
    IF symbols = Empty THEN Empty
    ELSE LET volatilities ==
                [s \in {t \in Keys(symbols) :
                           /\ HasHistory(t, price_data)
                           /\ RootPositive(VolatilityOf(t, price_data,
                                                        lookback_days))}
                    |-> VolatilityOf(s, price_data, lookback_days)]
         IN IF DOMAIN volatilities = {} THEN equal_weight(symbols)
            ELSE InverseShares(volatilities)

\* The returns_data of risk_parity, and of minimum_variance, which repeats
\* the loop.
ReturnsData(symbols, price_data, lookback_days) ==
    [s \in {t \in Keys(symbols) :
               /\ t \in DOMAIN price_data
               /\ "close" \in price_data[t].columns
               /\ Rows(price_data[t]) >= ParityMinPrices
               /\ Len(Lookback(ReturnsOf(price_data[t]),
                               lookback_days).values) >= ParityMinReturns}
        |-> Lookback(ReturnsOf(price_data[s]), lookback_days)]

\* pd.DataFrame(returns_data).dropna(): the rows whose label every column
\* has.
ReturnsFrame(returns_data) ==
    LET last(r) == r.first + Len(r.values) - 1
        lo == CHOOSE d \in {returns_data[s].first : s \in DOMAIN returns_data} :
                 \A s \in DOMAIN returns_data : returns_data[s].first <= d
        hi == CHOOSE d \in {last(returns_data[s]) : s \in DOMAIN returns_data} :
                 \A s \in DOMAIN returns_data : d <= last(returns_data[s])
    IN [s \in DOMAIN returns_data |->
           IF hi < lo THEN Empty
           ELSE SubSeq(returns_data[s].values,
                       lo - returns_data[s].first + 1,
                       hi - returns_data[s].first + 1)]

\* len(returns_df)
FrameLen(returns_df) ==
    Len(returns_df[CHOOSE s \in DOMAIN returns_df : TRUE])

risk_parity(symbols, price_data, lookback_days) ==
    IF Len(symbols) < 2 THEN equal_weight(symbols)
    ELSE LET returns_data == ReturnsData(symbols, price_data, lookback_days)
             returns_df == ReturnsFrame(returns_data)
         IN IF Cardinality(DOMAIN returns_data) < 2
            THEN equal_weight(symbols)
            ELSE IF FrameLen(returns_df) < MinOverlap
                 THEN equal_weight(symbols)
            ELSE InverseShares([s \in DOMAIN returns_df |->
                                   SeriesStd(returns_df[s])])

minimum_variance(symbols, price_data, lookback_days) ==
    IF Len(symbols) < 2 THEN equal_weight(symbols)
    ELSE LET returns_data == ReturnsData(symbols, price_data, lookback_days)
             returns_df == ReturnsFrame(returns_data)
             inverse_vars == [s \in DOMAIN returns_df |->
                                 FDiv(One, SeriesVar(returns_df[s]))]
         IN IF Cardinality(DOMAIN returns_data) < 2
            THEN equal_weight(symbols)
            ELSE IF FrameLen(returns_df) < MinOverlap
                 THEN equal_weight(symbols)
            ELSE DivideBy(inverse_vars, FSum(inverse_vars))

\* A price history of the given rows from the given first label on: closes
\* of 1 and the given last close.
HistoryFrame(first, rows, last_close) ==
    [index |-> first..(first + rows - 1),
     columns |-> {"close"},
     close |-> [d \in first..(first + rows - 1) |->
                   IF d = first + rows - 1 THEN last_close ELSE 1]]

\* Histories just below and at the least numbers of prices, flat or moving
\* with their last close; one that starts late; one without close column.
HistoryLengths ==
    {MinPrices - 1, MinPrices, ParityMinPrices - 1, ParityMinPrices}

Histories ==
    {HistoryFrame(1, rows, last_close) :
        rows \in HistoryLengths, last_close \in Prices}
    \cup {HistoryFrame(ParityMinPrices - MinReturns, ParityMinPrices, 2)}
    \cup {[index |-> 1..ParityMinPrices, columns |-> {"open"},
           close |-> Empty]}

Lookbacks == {ParityMinReturns + MinReturns, DefaultLookbackDays}

VolatilityCalls ==
    {[op |-> op, pc |-> "called", symbols |-> symbols,
      price_data |-> price_data, lookback_days |-> lookback_days] :
        op \in {"inverse_volatility_weight", "risk_parity",
                "minimum_variance"},
        symbols \in SymbolLists, price_data \in Dicts(Symbols, Histories),
        lookback_days \in Lookbacks}

VolatilityInit ==
    /\ EngineIdle
    /\ call \in VolatilityCalls
    /\ ret = Empty

InverseVolatilityWeight ==
    /\ call.op = "inverse_volatility_weight"
    /\ Return(inverse_volatility_weight(call.symbols, call.price_data,
                                        call.lookback_days))

RiskParity ==
    /\ call.op = "risk_parity"
    /\ Return(risk_parity(call.symbols, call.price_data, call.lookback_days))

MinimumVariance ==
    /\ call.op = "minimum_variance"
    /\ Return(minimum_variance(call.symbols, call.price_data,
                               call.lookback_days))

VolatilityNext == InverseVolatilityWeight \/ RiskParity \/ MinimumVariance

SpecVolatility == VolatilityInit /\ [][VolatilityNext]_vars

\* The symbol has enough history for the algorithm of the call.
SufficientHistory(symbol) ==
    /\ symbol \in DOMAIN call.price_data
    /\ "close" \in call.price_data[symbol].columns
    /\ Rows(call.price_data[symbol])
          >= (IF call.op = "inverse_volatility_weight" THEN MinPrices
              ELSE ParityMinPrices)

\* C26: every symbol in the result of inverse_volatility_weight,
\* risk_parity or minimum_variance has price data with sufficient history
\* for the algorithm and a strictly positive volatility: a symbol without
\* price data, with too little history or with zero volatility gets no
\* weight, whatever the data of the other symbols.
C26_OnlyVolatileWithHistory ==
    (call.pc = "done"
     /\ call.op \in {"inverse_volatility_weight", "risk_parity",
                     "minimum_variance"}) =>
        \A s \in DOMAIN ret :
            /\ SufficientHistory(s)
            /\ RootPositive(VolatilityOf(s, call.price_data,
                                         call.lookback_days))

====
